---------------------------- MODULE Spec2Model ----------------------------
(***************************************************************************)
(* A model of the climate visualisation scripts of DSC106_Project_3.       *)
(*                                                                         *)
(*   src/main.js:1-338      heatmap, first script  (state, cache,          *)
(*                          rowsToGrid, loadSlice, loadDeltaSlice)         *)
(*   src/main.js:340-742    heatmap, second script (STATE, loadSlice,      *)
(*                          drawCurrent, step, togglePlay)                 *)
(*   src/unnamed/part_000   anomaly bar charts (filterByRegion,            *)
(*                          computeMonthlyBaseline, loadData)              *)
(*                                                                         *)
(* JavaScript numbers are modelled as exact rationals n/d with a tag for   *)
(* NaN, undefined and null; IEEE rounding of double arithmetic is not      *)
(* modelled.  Each script is single threaded: an action is one run of the  *)
(* event loop, from an event or a settled fetch to the next await that     *)
(* really suspends.                                                        *)
(***************************************************************************)
EXTENDS Bags, Integers, Sequences, FiniteSets, TLC

VARIABLES
  \* ---- first heatmap script (src/main.js:34-47) ----
  entries,      \* state.entries: the month files, in manifest order
  cache,        \* cache: index -> grid, for the indices loaded so far
  state,        \* state.nLat, nLon, latsDesc, lonsAsc (grid metadata)
  delta,        \* what loadDeltaSlice(1) returned
  deltaRev,     \* the same subtraction with the two slices exchanged
  gpc,          \* which call of the first script has been made
  \* ---- anomaly bar charts (src/unnamed/part_000) ----
  script,       \* which of the two chart scripts the page runs: 1 (lines
                \* 1-267) or 2 (lines 268-605)
  rcell,        \* a CSV row given to filterByRegion, in both conventions
  rpick,        \* what filterByRegion answered for it
  rpc,          \* whether the filter has been applied
  files,        \* data/americas/<month>.csv: index in months -> file
  tabs,         \* the tabs the visitor opens
  initialized,  \* initialized[region]
  task,         \* per region: the run of createVisualization / loadData
  regionState,  \* regionState[region] (second script)
  ui,           \* state.variable and state.tIndex
  pending,      \* the d3.csv fetches in flight, each with what awaits it
  started,      \* per index: how many fetches of its file were started
  drawn,        \* what render last put on the canvas
  trend,        \* a series given to the trend fits, and the lines they made
  conv,         \* a value given to KtoC, and what it returned
  \* ---- second heatmap script (src/main.js:340-742) ----
  STATE2,       \* STATE: months (their number), tIndex, metric, playing, cache
  fetches,      \* the d3.csv fetches in flight, each with what awaits it
                \* (a bag: they settle in any order)
  canvas,       \* what renderSlice last put on the canvas
  page          \* the interval timers set, whether the event just handled
                \* was a back step or a forward step, and whether the
                \* visitor is still giving input

gridVars == <<entries, cache, state, delta, deltaRev, gpc>>
regionVars == <<rcell, rpick, rpc>>
chartVars == <<files, tabs, initialized, task, regionState>>
heatVars == <<ui, pending, started, drawn>>
fnVars == <<trend, conv>>
playVars == <<STATE2, fetches, canvas, page>>

vars == <<entries, cache, state, delta, deltaRev, gpc, script, rcell, rpick,
          rpc, files, tabs, initialized, task, regionState, ui, pending,
          started, drawn, trend, conv, STATE2, fetches, canvas, page>>

-----------------------------------------------------------------------------
(* JavaScript values *)

NaN == [t |-> "nan", n |-> 0, d |-> 1]
Undefined == [t |-> "undef", n |-> 0, d |-> 1]
Null == [t |-> "null", n |-> 0, d |-> 1]
\* a CSV field whose text is not a number
BadText == [t |-> "text", n |-> 0, d |-> 1]
Num(k) == [t |-> "num", n |-> k, d |-> 1]

\* Number.isFinite (no infinities occur in the model)
IsFinite(x) == x.t = "num"

\* unary plus: +undefined and +"abc" are NaN, +null is 0
ToNumber(x) ==
  CASE x.t = "num" -> x
    [] x.t = "null" -> Num(0)
    [] OTHER -> NaN

\* a ?? b
Coalesce(a, b) == IF a.t \in {"undef", "null"} THEN b ELSE a

\* a - b on numbers (NaN if either is not a number)
Minus(a, b) ==
  IF IsFinite(a) /\ IsFinite(b)
  THEN [t |-> "num", n |-> a.n * b.d - b.n * a.d, d |-> a.d * b.d]
  ELSE NaN

\* a + b on numbers
Plus(a, b) ==
  IF IsFinite(a) /\ IsFinite(b)
  THEN [t |-> "num", n |-> a.n * b.d + b.n * a.d, d |-> a.d * b.d]
  ELSE NaN

\* a < b on numbers (false when either is NaN)
Lt(a, b) == IsFinite(a) /\ IsFinite(b) /\ a.n * b.d < b.n * a.d
Le(a, b) == IsFinite(a) /\ IsFinite(b) /\ a.n * b.d <= b.n * a.d

RECURSIVE F32Exp(_)
F32Exp(m) == IF m < 16777216 THEN 0 ELSE 1 + F32Exp(m \div 2)

RECURSIVE Pow2(_)
Pow2(k) == IF k = 0 THEN 1 ELSE 2 * Pow2(k - 1)

\* round a non-negative integer to a multiple of q, ties to even
RoundHalfEven(m, q) ==
  LET lo == (m \div q) * q
      r == m - lo
  IN IF 2 * r < q THEN lo
     ELSE IF 2 * r > q THEN lo + q
     ELSE IF (m \div q) % 2 = 0 THEN lo ELSE lo + q

\* storing into a Float32Array: 24 bits of significand; a non-number is NaN
Float32(x) ==
  IF ~IsFinite(x) THEN NaN
  ELSE LET m == IF x.n < 0 THEN -x.n ELSE x.n
           r == RoundHalfEven(m, Pow2(F32Exp(m)))
       IN Num(IF x.n < 0 THEN -r ELSE r)

-----------------------------------------------------------------------------
(* Sequences *)

Range(s) == {s[i] : i \in 1..Len(s)}

\* the sequences over S of length at most n
SeqUpTo(S, n) == UNION {[1..k -> S] : k \in 0..n}

\* Array.from(new Set(s)): first occurrences, in order (NaN equals NaN)
RECURSIVE Dedup(_)
Dedup(s) ==
  IF s = <<>> THEN <<>>
  ELSE LET h == Dedup(SubSeq(s, 1, Len(s) - 1))
           x == s[Len(s)]
       IN IF x \in Range(h) THEN h ELSE Append(h, x)

\* the orders of a duplicate-free sequence
SeqPermutations(s) ==
  {p \in [1..Len(s) -> Range(s)] : Range(p) = Range(s)}

\* index of x in s, 0-based; -1 if absent (Map.get gives undefined)
IndexOf(s, x) ==
  IF x \in Range(s) THEN (CHOOSE i \in 1..Len(s) : s[i] = x) - 1 ELSE -1


-----------------------------------------------------------------------------
(* Array.prototype.sort with a numeric comparator, on a duplicate-free     *)
(* array.  (a, b) => b - a and d3.descending return NaN when an operand is *)
(* NaN, which sort reads as "equal".  With NaN and two different numbers   *)
(* the comparator is not consistent and ECMAScript leaves the order to the *)
(* implementation: every order is an outcome.  With NaN and at most one    *)
(* number every comparison says "equal" and the (stable) sort keeps the    *)
(* order of insertion.                                                     *)

IsDescending(s) == \A i \in 1..Len(s) - 1 : Lt(s[i + 1], s[i])
IsAscending(s) == \A i \in 1..Len(s) - 1 : Lt(s[i], s[i + 1])

SortOutcomes(s, descending) ==
  LET nums == {x \in Range(s) : IsFinite(x)}
  IN IF nums = Range(s)
     THEN {p \in SeqPermutations(s) :
             IF descending THEN IsDescending(p) ELSE IsAscending(p)}
     ELSE IF Cardinality(nums) <= 1 THEN {s}
     ELSE SeqPermutations(s)

-----------------------------------------------------------------------------
(* First heatmap script: CSV rows to a dense grid (src/main.js:58-108) *)

\* the temperature column names the spec accepts
TempColumns == {"tas_k", "tas", "temp", "temperature", "value"}

\* d[name] for a raw CSV row of a file whose temperature column is col
Field(col, r, name) == IF col = name THEN r.val ELSE Undefined

\* the row accessor of loadSlice: +d.tas is never nullish, so the ?? chain
\* always yields +d.tas
loadSliceRow(col, r) ==
  [lat |-> ToNumber(r.lat),
   lon |-> ToNumber(r.lon),
   tas |-> Coalesce(ToNumber(Field(col, r, "tas")),
           Coalesce(ToNumber(Field(col, r, "temp")),
           Coalesce(ToNumber(Field(col, r, "temperature")),
                    ToNumber(Field(col, r, "value")))))]

parseRows(file) ==
  [i \in 1..Len(file.rows) |-> loadSliceRow(file.col, file.rows[i])]

\* r.tas ?? r.temp ?? r.temperature ?? r.value on a parsed row, which has
\* only the property tas
rowValue(r) ==
  Coalesce(r.tas, Coalesce(Undefined, Coalesce(Undefined, Undefined)))

\* the loop of rowsToGrid: later rows overwrite earlier ones
RECURSIVE fillValues(_, _, _, _)
fillValues(rows, lats, lons, k) ==
  IF k = 0 THEN [c \in 1..(Len(lats) * Len(lons)) |-> NaN]
  ELSE LET prev == fillValues(rows, lats, lons, k - 1)
           i == IndexOf(lats, rows[k].lat)
           j == IndexOf(lons, rows[k].lon)
       IN IF i < 0 \/ j < 0 THEN prev
          ELSE [prev EXCEPT ![i * Len(lons) + j + 1] =
                              Float32(ToNumber(rowValue(rows[k])))]

\* rowsToGrid once the two sorts have returned lats and lons
gridOf(rows, lats, lons) ==
  [nLat |-> Len(lats), nLon |-> Len(lons),
   latsDesc |-> lats, lonsAsc |-> lons,
   values |-> fillValues(rows, lats, lons, Len(rows))]

\* the grids rowsToGrid(rows) can return
rowsToGrid(rows) ==
  LET latKeys == Dedup([i \in 1..Len(rows) |-> rows[i].lat])
      lonKeys == Dedup([i \in 1..Len(rows) |-> rows[i].lon])
  IN {gridOf(rows, la, lo) : la \in SortOutcomes(latKeys, TRUE),
                             lo \in SortOutcomes(lonKeys, FALSE)}

NoGrid == [nLat |-> 0, nLon |-> 0, latsDesc |-> <<>>, lonsAsc |-> <<>>,
           values |-> <<>>]
\* state as the script creates it (src/main.js:34-44)
state0 == [nLat |-> 0, nLon |-> 0, latsDesc |-> <<>>, lonsAsc |-> <<>>]

\* the metadata block of loadSlice (src/main.js:95-104)
initMetadata(st, grid) ==
  IF st.nLat = 0
  THEN [nLat |-> grid.nLat, nLon |-> grid.nLon,
        latsDesc |-> grid.latsDesc, lonsAsc |-> grid.lonsAsc]
  ELSE st

\* cache.set(index, grid)
cacheSet(c, index, grid) ==
  [k \in DOMAIN c \cup {index} |-> IF k = index THEN grid ELSE c[k]]

\* a variant that reads a missing previous value as zero
deltaValuesPrevZero(cur, prev) ==
  [k \in 1..Len(cur.values) |->
     LET a == cur.values[k]
         b == IF k <= Len(prev.values) THEN prev.values[k] ELSE Undefined
     IN IF IsFinite(a)
        THEN Float32(Minus(a, IF IsFinite(b) THEN b ELSE Num(0)))
        ELSE NaN]

\* the loop of loadDeltaSlice: by flat index k over cur.values; prev.values[k]
\* is undefined past the end of prev.values
deltaValues(cur, prev) ==
  [k \in 1..Len(cur.values) |->
     LET a == cur.values[k]
         b == IF k <= Len(prev.values) THEN prev.values[k] ELSE Undefined
     IN IF IsFinite(a) /\ IsFinite(b) THEN Float32(Minus(a, b)) ELSE NaN]

\* { values: null }, and the value of delta before any call
NoDelta == [kind |-> "null", values |-> <<>>]

\* what loadDeltaSlice(index) returns once both slices are there; nothing in
\* it throws, so "values" is its only kind of result for index > 0
loadDeltaSliceResult(index, cur, prev) ==
  IF index <= 0 THEN NoDelta
  ELSE [kind |-> "values", values |-> deltaValues(cur, prev)]

-----------------------------------------------------------------------------
(* Anomaly bar charts: filterByRegion (src/unnamed/part_000:52-62, 400-413) *)

Regions1 == {"alaska", "us"}
Regions2 == {"alaska", "us", "hawaii", "kansas", "florida", "ny",
             "california", "washington"}
RegionsOf(sc) == IF sc = 1 THEN Regions1 ELSE Regions2

\* a variant without the conversion of negative longitudes
normLonNone(lon) == lon

\* if (lon < 0) lon += 360
normLon(lon) == IF Lt(lon, Num(0)) THEN Plus(lon, Num(360)) ELSE lon

Box(latMin, latMax, lonMin, lonMax) ==
  [latMin |-> latMin, latMax |-> latMax, lonMin |-> lonMin, lonMax |-> lonMax]

\* the bounds of the second script's switch (as written: -102+360, ...)
regionBox(region) ==
  CASE region = "alaska" -> Box(51, 72, 190, 235)
    [] region = "us" -> Box(25, 49, 235, 294)
    [] region = "hawaii" -> Box(18, 23, 199, 207)
    [] region = "kansas" -> Box(36, 40, -102 + 360, -94 + 360)
    [] region = "florida" -> Box(24, 31, -87 + 360, -80 + 360)
    [] region = "ny" -> Box(40, 45, -80 + 360, -73 + 360)
    [] region = "california" -> Box(32, 42, -125 + 360, -114 + 360)
    [] region = "washington" -> Box(46, 49, -125 + 360, -116 + 360)

\* the first script: alaska, and everything else is the US box
regionBox1(region) ==
  IF region = "alaska" THEN Box(51, 72, 190, 235) ELSE Box(25, 49, 235, 294)

\* a variant with exclusive bounds
inBoxStrict(b, lat, lon) ==
  /\ Lt(Num(b.latMin), lat) /\ Lt(lat, Num(b.latMax))
  /\ Lt(Num(b.lonMin), lon) /\ Lt(lon, Num(b.lonMax))

\* lat >= latMin && lat <= latMax && lon >= lonMin && lon <= lonMax
inBox(b, lat, lon) ==
  /\ Le(Num(b.latMin), lat) /\ Le(lat, Num(b.latMax))
  /\ Le(Num(b.lonMin), lon) /\ Le(lon, Num(b.lonMax))

\* filterByRegion(d) of createVisualization(..., region, ...)
filterByRegion(sc, region, d) ==
  LET lat == ToNumber(d.lat)
      lon == normLon(ToNumber(d.lon))
  IN inBox(IF sc = 1 THEN regionBox1(region) ELSE regionBox(region), lat, lon)

-----------------------------------------------------------------------------
(* Anomaly bar charts: months, d3.mean, baseline and anomaly loops          *)
(* (src/unnamed/part_000:47-50, 64-117, 398, 415-453)                       *)

RECURSIVE Gcd(_, _)
Gcd(a, b) == IF b = 0 THEN a ELSE Gcd(b, a % b)

Abs(k) == IF k < 0 THEN -k ELSE k

\* the number n/d (d # 0) in lowest terms with a positive denominator
Rat(n, d) ==
  LET g == Gcd(Abs(n), Abs(d))
      sgn == IF d < 0 THEN -1 ELSE 1
  IN [t |-> "num", n |-> sgn * (n \div g), d |-> sgn * (d \div g)]

Norm(x) == IF IsFinite(x) THEN Rat(x.n, x.d) ELSE x

RECURSIVE SumNums(_)
SumNums(s) ==
  IF s = <<>> THEN Num(0)
  ELSE Norm(Plus(SumNums(Tail(s)), Head(s)))

\* d3.mean(values): the mean of the entries that are numbers once coerced
\* (undefined, null and NaN are skipped), undefined when there is none
d3mean(s) ==
  LET nums == SelectSeq(s, LAMBDA x : x.t \notin {"undef", "null"}
                                      /\ IsFinite(ToNumber(x)))
      total == SumNums(nums)
  IN IF nums = <<>> THEN Undefined
     ELSE Rat(total.n, total.d * Len(nums))

FirstYear == 1987
LastYear == 1988
MonthsPerYear == 12

\* String(month).padStart(2, "0"): the two digits of a month number
padStart2(m) == <<m \div 10, m % 10>>

\* `${year}-${String(month).padStart(2, "0")}`
monthString(year, month) == [year |-> year, mm |-> padStart2(month)]

\* parseInt(month.split("-")[1], 10)
parseMonth(str) == str.mm[1] * 10 + str.mm[2]

\* the months array of loadData: 1987-01, 1987-02, ... in loop order
months ==
  [k \in 1..((LastYear - FirstYear + 1) * MonthsPerYear) |->
     monthString(FirstYear + ((k - 1) \div MonthsPerYear),
                 ((k - 1) % MonthsPerYear) + 1)]

\* parseDate: new Date(year, month - 1, 1)
parseDate(str) == [year |-> str.year, month0 |-> parseMonth(str) - 1]

\* date.getMonth() + 1
getMonth1(date) == date.month0 + 1

\* a < b on dates (the order of getTime())
DateLt(a, b) ==
  a.year < b.year \/ (a.year = b.year /\ a.month0 < b.month0)

\* csvData.filter(filterByRegion)
regionDataOf(sc, region, file) ==
  SelectSeq(file.rows, LAMBDA d : filterByRegion(sc, region, d))

\* d3.mean(regionData, d => +d.tas_k)
avgTempOf(regionData) ==
  d3mean([k \in 1..Len(regionData) |-> ToNumber(regionData[k].tas_k)])

\* Array.from({length: 12}, () => [])
emptyMonthlyTemps == [m \in 1..MonthsPerYear |-> <<>>]

\* the try block of the loop of computeMonthlyBaseline, once the fetch of
\* month k has returned the file: a file without region cells leaves
\* monthlyTemps as it is
baselineStep(sc, region, temps, file, k) ==
  LET regionData == regionDataOf(sc, region, file)
      m == parseMonth(months[k])
  IN IF regionData = <<>> THEN temps
     ELSE [temps EXCEPT ![m] = Append(@, avgTempOf(regionData))]

\* monthlyTemps.map(arr => arr.length ? d3.mean(arr) : null)
baselineOf(temps) ==
  [m \in 1..MonthsPerYear |->
     IF Len(temps[m]) > 0 THEN d3mean(temps[m]) ELSE Null]

\* the test that skips a month without baseline: === null in the first
\* script, == null (null or undefined) in the second
baselineMissing(sc, b) ==
  IF sc = 1 THEN b.t = "null" ELSE b.t \in {"null", "undef"}

\* a variant that puts the new point first
pushPointFront(data, point) == <<point>> \o data

\* dataAll.push(point)
pushPoint(data, point) == Append(data, point)

\* the try block of the second loop of loadData, once the fetch of month k
\* has returned the file
anomalyStep(sc, region, baseline, data, file, k) ==
  LET regionData == regionDataOf(sc, region, file)
      avg == avgTempOf(regionData)
      b == baseline[parseMonth(months[k])]
  IN IF regionData = <<>> THEN data
     ELSE IF baselineMissing(sc, b) THEN data
     ELSE pushPoint(data, [date |-> parseDate(months[k]),
                           anomaly |-> Norm(Minus(avg, ToNumber(b))),
                           tempK |-> avg])

\* applyFiltersToData (second script; src/unnamed/part_000:362-372)
seasonMonths(season) ==
  CASE season = "winter" -> {12, 1, 2}
    [] season = "spring" -> {3, 4, 5}
    [] season = "summer" -> {6, 7, 8}
    [] season = "fall" -> {9, 10, 11}

\* data-month of a month button: "all", or a month number
MonthAll == [all |-> TRUE, month |-> 0]
MonthOnly(m) == [all |-> FALSE, month |-> m]
MonthFilters == {MonthAll} \cup {MonthOnly(m) : m \in 1..12}
SeasonFilters == {"all", "winter", "spring", "summer", "fall"}

applyFiltersToData(data, monthFilter, seasonFilter) ==
  LET byMonth ==
        IF ~monthFilter.all
        THEN SelectSeq(data, LAMBDA d : getMonth1(d.date) = monthFilter.month)
        ELSE data
  IN IF seasonFilter # "all"
     THEN SelectSeq(byMonth,
                    LAMBDA d : getMonth1(d.date) \in seasonMonths(seasonFilter))
     ELSE byMonth

-----------------------------------------------------------------------------
(* Anomaly bar charts: createVisualization as a task per region.  Every     *)
(* await d3.csv(...) suspends the task; a step runs it from the settled     *)
(* fetch to the next one.                                                   *)

ChartRegions == {"alaska", "us"}

NumMonths == Len(months)

\* the closure of createVisualization before loadData runs
idleTask ==
  [pc |-> "idle", k |-> 0, monthlyTemps |-> emptyMonthlyTemps,
   baseline |-> baselineOf(emptyMonthlyTemps), dataAll |-> <<>>,
   logged |-> {}, runs |-> 0, overlayFrom |-> <<>>]

\* loadData() up to the first await of computeMonthlyBaseline; runs counts
\* the calls of createVisualization for the region
startTask == [idleTask EXCEPT !.pc = "baseline", !.k = 1, !.runs = 1]

\* createVisualization called once more for a region: a fresh closure
restartTask(t) == [startTask EXCEPT !.runs = t.runs + 1]

\* a variant without try / catch: the rejection leaves loadData
rethrowFetchError(t) == [t EXCEPT !.pc = "rejected"]

\* catch (e) { console.warn(...) }: the month is logged and the loop goes on
catchFetchError(t) ==
  [t EXCEPT !.logged = @ \cup {[pass |-> t.pc, k |-> t.k]}]

\* the body of the current loop for the settled fetch of month t.k
loopBody(sc, region, t, file) ==
  IF ~file.ok THEN catchFetchError(t)
  ELSE IF t.pc = "baseline"
  THEN [t EXCEPT !.monthlyTemps =
                   baselineStep(sc, region, t.monthlyTemps, file, t.k)]
  ELSE [t EXCEPT !.dataAll =
                   anomalyStep(sc, region, t.baseline, t.dataAll, file, t.k)]

\* from the end of one iteration to the next await, or to the end of
\* loadData
continueTask(t) ==
  IF t.pc \notin {"baseline", "anomaly"} THEN t
  ELSE IF t.k < NumMonths THEN [t EXCEPT !.k = t.k + 1]
  ELSE IF t.pc = "baseline"
  THEN [t EXCEPT !.pc = "anomaly", !.k = 1,
                 !.baseline = baselineOf(t.monthlyTemps)]
  ELSE [t EXCEPT !.pc = IF t.dataAll = <<>> THEN "nodata" ELSE "done",
                 !.k = 0]

regionState0 ==
  [r \in ChartRegions |->
     [data |-> <<>>, selectedMonth |-> MonthAll, selectedSeason |-> "all"]]

\* no regression line: null, or nothing drawn
NoLine == [kind |-> "null", t0 |-> 0, t1 |-> 0, a0 |-> NaN, a1 |-> NaN]

\* the trend fits and KtoC not called
FunctionsIdle ==
  /\ trend = [pc |-> "off", series |-> <<>>, t0 |-> 0, t1 |-> 0,
              overlay |-> NoLine, regLine |-> NoLine]
  /\ conv = [pc |-> "off", v |-> NaN, out |-> NaN]

\* nothing filtered yet
NoPick == [lon360 |-> FALSE, lonSigned |-> FALSE, selected |-> <<>>]

\* the chart scripts not running
ChartsIdle ==
  /\ script = 0
  /\ rcell = [region |-> "alaska", lat |-> Num(0), lon360 |-> Num(0),
              lonSigned |-> Num(0)]
  /\ rpick = NoPick
  /\ rpc = "off"
  /\ files = <<>>
  /\ tabs = {}
  /\ initialized = [r \in ChartRegions |-> FALSE]
  /\ task = [r \in ChartRegions |-> idleTask]
  /\ regionState = regionState0

-----------------------------------------------------------------------------
(* Driver of the first script's grid functions.                            *)
(* GridSpec loads one file; DeltaSpec loads two and subtracts them.        *)

MaxRows == 3
MaxDeltaRows == 2

GridLatTexts == {BadText, Num(1), Num(2)}
GridLonTexts == {BadText, Num(1), Num(2)}
GridValTexts == {BadText, Num(5)}

GridRowTexts == [lat : GridLatTexts, lon : GridLonTexts, val : GridValTexts]

GridFiles == [col : TempColumns, rows : SeqUpTo(GridRowTexts, MaxRows)]

DeltaRowTexts ==
  [lat : {Num(1), Num(2)}, lon : {Num(1)}, val : {BadText, Num(3), Num(5)}]

DeltaFiles == [col : {"tas"}, rows : SeqUpTo(DeltaRowTexts, MaxDeltaRows)]

\* state.variable / state.tIndex as the script creates them, nothing in
\* flight and nothing drawn
ui0 == [variable |-> "temp", tIndex |-> 0]
NothingDrawn == [kind |-> "none", t |-> 0, values |-> <<>>]

\* no slice: null
NoSlice == [ym |-> -1, vC |-> NaN]

\* STATE as the second heatmap script declares it
STATE0 ==
  [months |-> 0, tIndex |-> 0, metric |-> "temperature", playing |-> FALSE,
   cache |-> <<>>]

\* nothing rendered yet
BlankCanvas == [metric |-> "none", ym |-> -1, prev |-> -1, values |-> <<>>]

\* the second heatmap script not running
PlayIdle ==
  /\ STATE2 = STATE0
  /\ fetches = EmptyBag
  /\ canvas = BlankCanvas
  /\ page = [timers |-> 0, present |-> FALSE, event |-> "off"]

HeatIdle ==
  /\ ui = ui0
  /\ pending = <<>>
  /\ started = <<>>
  /\ drawn = NothingDrawn

\* what the grid functions, run one call at a time, leave alone
notGrid == <<script, regionVars, chartVars, heatVars, fnVars, playVars>>

\* the first heatmap script not running
GridIdle ==
  /\ entries = <<>>
  /\ cache = <<>>
  /\ state = state0
  /\ delta = NoDelta
  /\ deltaRev = NoDelta
  /\ gpc = "off"
  /\ HeatIdle

GridInit ==
  /\ PlayIdle
  /\ FunctionsIdle
  /\ ChartsIdle
  /\ HeatIdle
  /\ entries \in {<<f>> : f \in GridFiles}
  /\ cache = <<>>
  /\ state = state0
  /\ delta = NoDelta
  /\ deltaRev = NoDelta
  /\ gpc = "grid"

\* loadSlice(index) on a cache miss, from the call to its return
loadSlice(index) ==
  /\ index \notin DOMAIN cache
  /\ index + 1 \in DOMAIN entries
  /\ \E grid \in rowsToGrid(parseRows(entries[index + 1])) :
       /\ state' = initMetadata(state, grid)
       /\ cache' = cacheSet(cache, index, grid)

GridLoad ==
  /\ gpc = "grid"
  /\ loadSlice(0)
  /\ gpc' = "gridDone"
  /\ UNCHANGED <<entries, delta, deltaRev, notGrid>>

GridNext == GridLoad

GridSpec == GridInit /\ [][GridNext]_vars
DeltaInit ==
  /\ PlayIdle
  /\ FunctionsIdle
  /\ ChartsIdle
  /\ HeatIdle
  /\ entries \in {<<f, g>> : f \in DeltaFiles, g \in DeltaFiles}
  /\ cache = <<>>
  /\ state = state0
  /\ delta = NoDelta
  /\ deltaRev = NoDelta
  /\ gpc = "delta"

\* init(): await loadSlice(0)  (src/main.js:331)
DeltaLoadFirst ==
  /\ gpc = "delta"
  /\ loadSlice(0)
  /\ gpc' = "deltaCur"
  /\ UNCHANGED <<entries, delta, deltaRev, notGrid>>

\* loadDeltaSlice(1): loadSlice(1) misses the cache, loadSlice(0) hits it
DeltaLoadDelta ==
  /\ gpc = "deltaCur"
  /\ loadSlice(1)
  /\ delta' = loadDeltaSliceResult(1, cache'[1], cache'[0])
  /\ deltaRev' = loadDeltaSliceResult(1, cache'[0], cache'[1])
  /\ gpc' = "deltaDone"
  /\ UNCHANGED <<entries, notGrid>>

DeltaNext == DeltaLoadFirst \/ DeltaLoadDelta

DeltaSpec == DeltaInit /\ [][DeltaNext]_vars

-----------------------------------------------------------------------------
(* Claims about the grid functions *)

\* the parsed rows of the file at index
rowsAt(index) == parseRows(entries[index + 1])

DistinctLats(rows) == {rows[i].lat : i \in 1..Len(rows)}
DistinctLons(rows) == {rows[i].lon : i \in 1..Len(rows)}

\* C5: the axes rowsToGrid returns hold no value twice, are as long as the
\* number of distinct lat / lon values of the rows, and are sorted: latitude
\* strictly descending, longitude strictly ascending, whatever the row order.
C5_AxesSortedUnique ==
  gpc = "gridDone" =>
    LET g == cache[0]
        rows == rowsAt(0)
    IN /\ Cardinality(Range(g.latsDesc)) = Len(g.latsDesc)
       /\ Cardinality(Range(g.lonsAsc)) = Len(g.lonsAsc)
       /\ Len(g.latsDesc) = Cardinality(DistinctLats(rows))
       /\ Len(g.lonsAsc) = Cardinality(DistinctLons(rows))
       /\ IsDescending(g.latsDesc)
       /\ IsAscending(g.lonsAsc)

\* the cells (i, j) of a grid, 1-based
Cells(g) == (1..g.nLat) \X (1..g.nLon)
CellValue(g, c) == g.values[(c[1] - 1) * g.nLon + c[2]]
NonNaNCells(g) == {c \in Cells(g) : IsFinite(CellValue(g, c))}

\* the raw rows whose lat, lon and temperature text are all numbers
ValidRows(file) ==
  {k \in 1..Len(file.rows) :
     /\ file.rows[k].lat.t = "num"
     /\ file.rows[k].lon.t = "num"
     /\ file.rows[k].val.t = "num"}

\* C6: a cell of the dense grid is a number only if a row at that (lat, lon)
\* carries a numeric value, and the grid has at most as many non-NaN cells as
\* the file has rows with valid lat, lon and value.
C6_NonNaNCellsFromValidRows ==
  gpc = "gridDone" =>
    LET g == cache[0]
        file == entries[1]
        rows == rowsAt(0)
    IN /\ \A c \in NonNaNCells(g) :
            \E k \in 1..Len(rows) :
              /\ rows[k].lat = g.latsDesc[c[1]]
              /\ rows[k].lon = g.lonsAsc[c[2]]
              /\ file.rows[k].val.t = "num"
       /\ Cardinality(NonNaNCells(g)) <= Cardinality(ValidRows(file))

\* the value a grid holds at coordinates (lat, lon); missing is NaN
ValueAt(g, lat, lon) ==
  IF IndexOf(g.latsDesc, lat) >= 0 /\ IndexOf(g.lonsAsc, lon) >= 0
  THEN g.values[IndexOf(g.latsDesc, lat) * g.nLon + IndexOf(g.lonsAsc, lon) + 1]
  ELSE NaN

SameAxes(g, h) == g.latsDesc = h.latsDesc /\ g.lonsAsc = h.lonsAsc

\* C7: for t > 0 the rate-of-change grid holds, at every cell position of the
\* current month, the current value minus the previous month's value at that
\* position, and NaN when either of the two is NaN or missing.
C7_DeltaIsCurMinusPrevPerCell ==
  gpc = "deltaDone" =>
    LET cur == cache[1]
        prev == cache[0]
    IN /\ delta.kind = "values"
       /\ Len(delta.values) = cur.nLat * cur.nLon
       /\ \A c \in Cells(cur) :
            delta.values[(c[1] - 1) * cur.nLon + c[2]] =
              Minus(CellValue(cur, c),
                    ValueAt(prev, cur.latsDesc[c[1]], cur.lonsAsc[c[2]]))

\* C8: when the two grids' axes differ, the rate of change fails with a
\* ShapeMismatchError instead of returning differences.
C8_AxesMismatchRaises ==
  (gpc = "deltaDone" /\ ~SameAxes(cache[1], cache[0])) =>
    delta.kind = "ShapeMismatchError"

Negated(x) == IF IsFinite(x) THEN [x EXCEPT !.n = -x.n] ELSE x

\* C9: on two grids with the same axes, rateOfChange(A, B) and
\* rateOfChange(B, A) are NaN at the same cells and each other's negation at
\* every other cell.
C9_DeltaAntisymmetric ==
  (gpc = "deltaDone" /\ SameAxes(cache[1], cache[0])) =>
    /\ Len(delta.values) = Len(deltaRev.values)
    /\ \A k \in 1..Len(delta.values) :
         /\ IsFinite(delta.values[k]) <=> IsFinite(deltaRev.values[k])
         /\ delta.values[k] = Negated(deltaRev.values[k])

\* two same-axes grids with a NaN cell and a cell that changed
C9_Witness ==
  /\ gpc = "deltaDone"
  /\ SameAxes(cache[1], cache[0])
  /\ \E k \in 1..Len(delta.values) : ~IsFinite(delta.values[k])
  /\ \E k \in 1..Len(delta.values) :
       IsFinite(delta.values[k]) /\ delta.values[k].n # 0
-----------------------------------------------------------------------------
(* Driver of filterByRegion: one cell, its longitude written in [0, 360]   *)
(* and in [-180, 180].                                                     *)

\* latitudes at and next to every bound of the switch
LatSamples ==
  {17, 18, 19, 22, 23, 24, 25, 26, 30, 31, 32, 33, 35, 36, 37, 39, 40, 41,
   42, 43, 44, 45, 46, 47, 48, 49, 50, 51, 52, 71, 72, 73}

\* the same meridian in the two conventions
SameMeridian(u, s) == (u - s) % 360 = 0

RegionInit ==
  /\ PlayIdle
  /\ FunctionsIdle
  /\ GridIdle
  /\ files = <<>>
  /\ tabs = {}
  /\ initialized = [r \in ChartRegions |-> FALSE]
  /\ task = [r \in ChartRegions |-> idleTask]
  /\ regionState = regionState0
  /\ script \in {1, 2}
  /\ \E region \in RegionsOf(script), lat \in LatSamples, u \in 0..360 :
     \E s \in {x \in {u - 360, u} : x \in -180..180 /\ SameMeridian(u, x)} :
       rcell = [region |-> region, lat |-> Num(lat),
                   lon360 |-> Num(u), lonSigned |-> Num(s)]
  /\ rpick = NoPick
  /\ rpc = "cell"

\* a csvData of two rows: the cell in the one and in the other convention
cellRows(c) ==
  <<[lat |-> c.lat, lon |-> c.lon360], [lat |-> c.lat, lon |-> c.lonSigned]>>

\* filterByRegion on the row, once per convention, and csvData.filter on
\* the two rows
RegionFilter ==
  /\ rpc = "cell"
  /\ rpick' =
       [lon360 |-> filterByRegion(script, rcell.region,
                                  [lat |-> rcell.lat, lon |-> rcell.lon360]),
        lonSigned |-> filterByRegion(script, rcell.region,
                                  [lat |-> rcell.lat, lon |-> rcell.lonSigned]),
        selected |-> regionDataOf(script, rcell.region,
                                  [rows |-> cellRows(rcell)])]
  /\ rpc' = "filtered"
  /\ UNCHANGED <<script, rcell, gridVars, chartVars, heatVars, fnVars,
                 playVars>>

RegionNext == RegionFilter

RegionSpec == RegionInit /\ [][RegionNext]_vars

\* C10: filterByRegion accepts or rejects a cell alike whether its longitude
\* is written in [0, 360] or as the same meridian in [-180, 180].
C10_LonConventionIndependent ==
  rpc = "filtered" => rpick.lon360 = rpick.lonSigned

\* a cell west of Greenwich, written with a negative longitude, is selected
C10_Witness ==
  /\ rpc = "filtered"
  /\ rcell.lonSigned.n < 0
  /\ rcell.lon360.n # rcell.lonSigned.n
  /\ rpick.lonSigned
  /\ rpick.lon360

-----------------------------------------------------------------------------
(* Anomaly charts: the month files and the visitor                          *)

\* a row of a month file: the lat, lon and tas_k columns as read
Row(lat, lon, tas) == [lat |-> lat, lon |-> lon, tas_k |-> tas]

\* d3.csv rejects (the file is not there)
FileMissing == [ok |-> FALSE, rows |-> <<>>]

\* a file with no cell in Alaska or the contiguous US
FileElsewhere == [ok |-> TRUE, rows |-> <<Row(Num(10), Num(10), Num(300))>>]

\* region cells whose temperature does not read as a number
FileUnparsed ==
  [ok |-> TRUE,
   rows |-> <<Row(Num(60), Num(200), BadText), Row(Num(40), Num(260), BadText)>>]

FileA ==
  [ok |-> TRUE,
   rows |-> <<Row(Num(60), Num(200), Num(280)), Row(Num(65), Num(-150), Num(282)),
              Row(Num(40), Num(260), Num(290)), Row(Num(10), Num(10), Num(300))>>]

FileB ==
  [ok |-> TRUE,
   rows |-> <<Row(Num(60), Num(200), Num(284)), Row(Num(65), Num(-150), BadText),
              Row(Num(51), Num(235), Num(287)), Row(Num(40), Num(260), Num(288)),
              Row(Num(30), Num(-100), Num(291))>>]

\* the January and February files of one year; no other month has a file
YearFiles ==
  {<<FileA, FileB>>, <<FileB, FileA>>, <<FileMissing, FileA>>,
   <<FileB, FileMissing>>, <<FileElsewhere, FileB>>, <<FileA, FileElsewhere>>,
   <<FileUnparsed, FileA>>, <<FileUnparsed, FileUnparsed>>}

FewYearFiles == {<<FileA, FileB>>, <<FileMissing, FileUnparsed>>}

Years == FirstYear..LastYear

\* the files on the server, by index in months
filesOf(byYear) ==
  [k \in 1..NumMonths |->
     LET m == parseMonth(months[k])
     IN IF m \in {1, 2} THEN byYear[months[k].year][m] ELSE FileMissing]

\* the page as the script leaves it once it has run: the first script starts
\* the Alaska chart (src/unnamed/part_000:265-267), the second starts none
initialized0(sc) == [r \in ChartRegions |-> sc = 1 /\ r = "alaska"]

task0(sc) ==
  [r \in ChartRegions |-> IF sc = 1 /\ r = "alaska" THEN startTask ELSE idleTask]

notCharts == <<gridVars, regionVars, heatVars, fnVars, playVars>>

ChartsInit(yearFiles, tabChoices) ==
  /\ PlayIdle
  /\ FunctionsIdle
  /\ GridIdle
  /\ rcell = [region |-> "alaska", lat |-> Num(0), lon360 |-> Num(0),
              lonSigned |-> Num(0)]
  /\ rpick = NoPick
  /\ rpc = "off"
  /\ script \in {1, 2}
  /\ \E byYear \in [Years -> yearFiles] : files = filesOf(byYear)
  /\ tabs \in tabChoices
  /\ initialized = initialized0(script)
  /\ task = task0(script)
  /\ regionState = regionState0

\* a variant with one set of locals for all regions
scopeShared(region) == "alaska"

\* the locals of createVisualization (dataAll, monthlyTemps, baseline)
\* belong to the call for the region
scopeOf(region) == region

\* a variant that forgets which charts were started
neverInitialized(tab) == FALSE

\* the flag tested by if (!initialized[tab])
alreadyInitialized(tab) == initialized[tab]

\* window.switchTab(tab): the first visit of a tab starts its chart
switchTab(tab) ==
  /\ tab \in tabs
  /\ IF ~alreadyInitialized(tab)
     THEN /\ initialized' = [initialized EXCEPT ![tab] = TRUE]
          /\ task' = [task EXCEPT ![scopeOf(tab)] = restartTask(@)]
     ELSE UNCHANGED <<initialized, task>>
  /\ UNCHANGED <<script, files, tabs, regionState, notCharts>>

\* a variant that stores dataAll in regionState while it is being filled
dataPublishedEarly(t) == TRUE

\* regionState[region].data = dataAll is reached after the anomaly loop,
\* with a series that is not empty
dataPublished(t) == t.pc = "done"

\* getFilteredData() of the chart of region
getFilteredData(rs, region) ==
  applyFiltersToData(rs[region].data, rs[region].selectedMonth,
                     rs[region].selectedSeason)

\* drawChart() of region: the filtered Alaska series that the regression
\* overlay is fitted to, <<>> when no overlay is drawn (d3.min of an empty
\* data has no getTime, the handler throws before the overlay)
alaskaOverlay(rs, region) ==
  LET data == getFilteredData(rs, region)
      alaskaFiltered ==
        applyFiltersToData(rs["alaska"].data, rs[region].selectedMonth,
                           rs[region].selectedSeason)
  IN IF /\ region # "alaska"
        /\ rs["alaska"].data # <<>>
        /\ Len(alaskaFiltered) > 1
        /\ data # <<>>
     THEN alaskaFiltered
     ELSE <<>>

\* the fetch the chart of region is waiting for settles: the loop body runs
\* for that month, and the task goes on to its next fetch or to its end
\* and, in the second chart script, to the first drawChart
fetchSettles(region) ==
  LET t == task[scopeOf(region)]
      after == continueTask(loopBody(script, region, t, files[t.k]))
      rs == IF script = 2 /\ dataPublished(after)
            THEN [regionState EXCEPT ![region].data = after.dataAll]
            ELSE regionState
  IN /\ initialized[region]
     /\ t.pc \in {"baseline", "anomaly"}
     /\ task' = [task EXCEPT ![scopeOf(region)] =
                   IF script = 2 /\ after.pc = "done"
                   THEN [after EXCEPT !.overlayFrom = alaskaOverlay(rs, region)]
                   ELSE after]
     /\ regionState' = rs
     /\ UNCHANGED <<script, files, tabs, initialized, notCharts>>

\* a click on a month button of a chart whose setupFilters() has run
monthClick(region, selected) ==
  LET rs == [regionState EXCEPT ![region].selectedMonth = selected]
  IN /\ script = 2
     /\ region \in tabs
     /\ task[scopeOf(region)].pc = "done"
     /\ regionState' = rs
     /\ task' = [task EXCEPT ![scopeOf(region)].overlayFrom =
                                alaskaOverlay(rs, region)]
     /\ UNCHANGED <<script, files, tabs, initialized, notCharts>>

\* a click on a season button of a chart whose setupFilters() has run
seasonClick(region, selected) ==
  LET rs == [regionState EXCEPT ![region].selectedSeason = selected]
  IN /\ script = 2
     /\ region \in tabs
     /\ task[scopeOf(region)].pc = "done"
     /\ regionState' = rs
     /\ task' = [task EXCEPT ![scopeOf(region)].overlayFrom =
                                alaskaOverlay(rs, region)]
     /\ UNCHANGED <<script, files, tabs, initialized, notCharts>>

\* the month buttons that are clicked: "All" and the first months of the year
MaxClickMonth == 2

ClickedMonths == {MonthAll} \cup {MonthOnly(m) : m \in 1..MaxClickMonth}

\* the season buttons that are clicked: one season with files, one without
ClickedSeasons == {"all", "winter", "spring"}

ChartsNext ==
  \/ \E tab \in ChartRegions : switchTab(tab)
  \/ \E region \in ChartRegions : fetchSettles(region)

\* the charts with a visitor who also clicks the filter buttons
OverlayNext ==
  \/ ChartsNext
  \/ \E region \in ChartRegions, selected \in ClickedMonths :
        monthClick(region, selected)
  \/ \E region \in ChartRegions, selected \in ClickedSeasons :
        seasonClick(region, selected)

\* one chart at a time, over many sets of files
SeriesInit ==
  ChartsInit(YearFiles,
             IF script = 1 THEN {{"alaska"}} ELSE {{"alaska"}, {"us"}})

SeriesSpec == SeriesInit /\ [][ChartsNext]_vars

\* the two charts loading at the same time
ChartsBothInit == ChartsInit(FewYearFiles, {ChartRegions})

ChartsSpec == ChartsBothInit /\ [][ChartsNext]_vars

\* the two charts of the second script loading at the same time, with
\* filter clicks
OverlayInit == ChartsBothInit /\ script = 2

OverlaySpec == OverlayInit /\ [][OverlayNext]_vars

-----------------------------------------------------------------------------
(* Claims on the anomaly charts                                             *)

finished(t) == t.pc \in {"done", "nodata"}

\* the months, in order, whose file loads and has cells of the region
regionMonths(sc, region) ==
  SelectSeq([k \in 1..NumMonths |-> k],
            LAMBDA k : files[k].ok /\ regionDataOf(sc, region, files[k]) # <<>>)

regionalMean(sc, region, k) == avgTempOf(regionDataOf(sc, region, files[k]))

hasPoint(data, k) == \E i \in 1..Len(data) : data[i].date = parseDate(months[k])

\* C2: a month whose fetch fails is logged and skipped, in the baseline pass
\* and in the anomaly pass; the failure never leaves computeMonthlyBaseline
\* or loadData, and every other month whose file loads with region cells
\* still contributes: its mean is in monthlyTemps, and it has a point in the
\* series whenever its calendar month has a baseline.
C2_FailedMonthSkippedOthersContribute ==
  \A r \in ChartRegions :
    LET t == task[r]
        ks == regionMonths(script, r)
    IN /\ t.pc # "rejected"
       /\ finished(t) =>
            /\ \A k \in 1..NumMonths :
                 ~files[k].ok =>
                   /\ [pass |-> "baseline", k |-> k] \in t.logged
                   /\ [pass |-> "anomaly", k |-> k] \in t.logged
                   /\ ~hasPoint(t.dataAll, k)
            /\ \A m \in 1..MonthsPerYear :
                 t.monthlyTemps[m] =
                   LET km == SelectSeq(ks, LAMBDA k : parseMonth(months[k]) = m)
                   IN [i \in 1..Len(km) |-> regionalMean(script, r, km[i])]
            /\ \A i \in 1..Len(ks) :
                 \/ hasPoint(t.dataAll, ks[i])
                 \/ baselineMissing(script,
                                    t.baseline[parseMonth(months[ks[i]])])
            /\ \A i \in 1..Len(ks) :
                 IsFinite(regionalMean(script, r, ks[i]))
                   => hasPoint(t.dataAll, ks[i])

\* a chart is complete although the first file it asked for failed, with a
\* point for a later month
C2_Witness ==
  \E r \in ChartRegions :
    /\ task[r].pc = "done"
    /\ ~files[1].ok
    /\ [pass |-> "baseline", k |-> 1] \in task[r].logged
    /\ \E k \in 2..NumMonths : files[k].ok /\ hasPoint(task[r].dataAll, k)

ascendingByDate(data) ==
  \A i \in 1..Len(data) : \A j \in 1..Len(data) :
    i < j => DateLt(data[i].date, data[j].date)

\* C3: the anomaly series (dataAll, regionState[region].data) is strictly
\* ascending by date in every state, whichever months fail to load or have
\* no region cells, and so is every series applyFiltersToData makes of it.
C3_SeriesAscendingByDate ==
  \A r \in ChartRegions :
    /\ ascendingByDate(task[r].dataAll)
    /\ ascendingByDate(regionState[r].data)
    /\ \A mf \in MonthFilters : \A sf \in SeasonFilters :
         /\ ascendingByDate(applyFiltersToData(task[r].dataAll, mf, sf))
         /\ ascendingByDate(applyFiltersToData(regionState[r].data, mf, sf))

\* a series with a month missing in the middle, of which the January filter
\* keeps two points
C3_Witness ==
  \E r \in ChartRegions :
    /\ script = 2
    /\ Len(regionState[r].data) >= 3
    /\ hasPoint(regionState[r].data, 1)
    /\ ~hasPoint(regionState[r].data, 2)
    /\ Len(applyFiltersToData(regionState[r].data, MonthOnly(1), "winter")) = 2

\* the baseline table of a region as a function of the files alone
expectedBaseline(sc, region) ==
  [m \in 1..MonthsPerYear |->
     LET km == SelectSeq(regionMonths(sc, region),
                         LAMBDA k : parseMonth(months[k]) = m)
     IN IF km = <<>> THEN Null
        ELSE d3mean([i \in 1..Len(km) |-> regionalMean(sc, region, km[i])])]

\* the anomaly series of a region as a function of the files alone
expectedSeries(sc, region) ==
  LET b == expectedBaseline(sc, region)
      ks == SelectSeq(regionMonths(sc, region),
              LAMBDA k : ~baselineMissing(sc, b[parseMonth(months[k])]))
  IN [i \in 1..Len(ks) |->
        LET avg == regionalMean(sc, region, ks[i])
        IN [date |-> parseDate(months[ks[i]]),
            anomaly |-> Norm(Minus(avg, ToNumber(b[parseMonth(months[ks[i]])]))),
            tempK |-> avg]]

\* C4: for a fixed set of month files the baseline table and the anomaly
\* series of a region are determined by the files, whatever the order in
\* which the loads of the charts complete and interleave.
C4_OutputsDeterminedByFiles ==
  \A r \in ChartRegions :
    finished(task[r]) =>
      /\ task[r].baseline = expectedBaseline(script, r)
      /\ task[r].dataAll = expectedSeries(script, r)
      /\ (script = 2 /\ task[r].pc = "done")
           => regionState[r].data = expectedSeries(script, r)

\* the Alaska chart is complete, with two points or more, while the US chart
\* is in the middle of its anomaly pass with a series of its own
C4_Witness ==
  /\ task["alaska"].pc = "done"
  /\ Len(task["alaska"].dataAll) >= 2
  /\ task["us"].pc = "anomaly"
  /\ task["us"].k > 2
  /\ task["us"].dataAll # <<>>
  /\ task["us"].dataAll # task["alaska"].dataAll

-----------------------------------------------------------------------------
(* The first heatmap script with its events: init, the slider, the variable *)
(* menu, and the d3.csv fetches that settle in between                      *)
(* (src/main.js:81-125, 228-338).  A step runs from an event, or from the   *)
(* settling of a fetch, to the point where every call waits for a fetch;    *)
(* an await on a slice that is in the cache resumes within the same step.   *)

NumSlices == 3
MaxStarts == 4

Indices == 0..(NumSlices - 1)

\* the file of manifest entry index: one cell, at index + 5 kelvin
sliceFile(index) ==
  [col |-> "tas",
   rows |-> <<[lat |-> Num(1), lon |-> Num(1), val |-> Num(index + 5)]>>]

\* what waits for a fetch: the loadSlice call and, behind it, its callers
Frame(kind, t, caller, cur) ==
  [kind |-> kind, t |-> t, caller |-> caller, cur |-> cur]

TotalStarts(st) ==
  LET RECURSIVE sum(_)
      sum(S) == IF S = {} THEN 0
                ELSE LET k == CHOOSE k \in S : TRUE IN st[k] + sum(S \ {k})
  IN sum(DOMAIN st)

RECURSIVE callLoadSlice(_, _, _, _)
RECURSIVE resume(_, _, _, _)

\* the slider handler after await render(): the prefetch of the neighbour of
\* state.tIndex as it is by then (src/main.js:326-327)
afterRender(h, u, caller) ==
  IF caller = "input" /\ u.tIndex + 1 < NumSlices
  THEN callLoadSlice(h, u, u.tIndex + 1, Frame("prefetch", u.tIndex + 1, "none", NoGrid))
  ELSE h

\* render(): t is read once, then the slice or the delta is awaited
render(h, u, caller) ==
  LET t == u.tIndex
  IN IF u.variable = "temp"
     THEN callLoadSlice(h, u, t, Frame("temp", t, caller, NoGrid))
     ELSE IF t <= 0
     THEN afterRender([h EXCEPT !.drawn = [kind |-> "unavailable", t |-> t,
                                           values |-> <<>>]], u, caller)
     ELSE callLoadSlice(h, u, t, Frame("deltaCur", t, caller, NoGrid))

\* loadSlice(index): the cached grid if cache.has(index), a new fetch if not
callLoadSlice(h, u, index, frame) ==
  IF index \in DOMAIN h.cache
  THEN resume(h, u, frame, h.cache[index])
  ELSE [h EXCEPT !.pending = Append(@, [index |-> index, frame |-> frame]),
                 !.started[index] = @ + 1]

\* the caller of loadSlice goes on with the grid it awaited
resume(h, u, frame, grid) ==
  CASE frame.kind = "init" -> render(h, u, "init")
    [] frame.kind = "temp" ->
         afterRender([h EXCEPT !.drawn = [kind |-> "temp", t |-> frame.t,
                                          values |-> grid.values]],
                     u, frame.caller)
    [] frame.kind = "deltaCur" ->
         callLoadSlice(h, u, frame.t - 1,
                       Frame("deltaPrev", frame.t, frame.caller, grid))
    [] frame.kind = "deltaPrev" ->
         afterRender([h EXCEPT !.drawn =
                        [kind |-> "rate", t |-> frame.t,
                         values |-> loadDeltaSliceResult(frame.t, frame.cur,
                                                         grid).values]],
                     u, frame.caller)
    [] frame.kind = "prefetch" -> h

heatOf(c, st, p, s, d) ==
  [cache |-> c, state |-> st, pending |-> p, started |-> s, drawn |-> d]

heatNow == heatOf(cache, state, pending, started, drawn)

setHeat(h) ==
  /\ cache' = h.cache
  /\ state' = h.state
  /\ pending' = h.pending
  /\ started' = h.started
  /\ drawn' = h.drawn

notHeat == <<entries, delta, deltaRev, gpc, script, regionVars, chartVars,
            fnVars, playVars>>

\* init() up to its await loadSlice(0): the manifest is read, the listeners
\* are registered, the fetch of the first slice is in flight
HeatInit ==
  /\ PlayIdle
  /\ FunctionsIdle
  /\ ChartsIdle
  /\ entries = [k \in 1..NumSlices |-> sliceFile(k - 1)]
  /\ cache = <<>>
  /\ state = state0
  /\ delta = NoDelta
  /\ deltaRev = NoDelta
  /\ gpc = "heat"
  /\ ui = ui0
  /\ pending = <<[index |-> 0, frame |-> Frame("init", 0, "none", NoGrid)]>>
  /\ started = [k \in Indices |-> IF k = 0 THEN 1 ELSE 0]
  /\ drawn = NothingDrawn

\* the visitor moves the slider to value
SliderInput(value) ==
  /\ gpc = "heat"
  /\ value # ui.tIndex
  /\ TotalStarts(started) < MaxStarts
  /\ ui' = [ui EXCEPT !.tIndex = value]
  /\ setHeat(render(heatNow, ui', "input"))
  /\ UNCHANGED notHeat

\* the visitor picks the other variable; rate at index 0 jumps to index 1
VariableChange(value) ==
  /\ gpc = "heat"
  /\ value # ui.variable
  /\ TotalStarts(started) < MaxStarts
  /\ ui' = [variable |-> value,
            tIndex |-> IF value = "rate" /\ ui.tIndex = 0 /\ NumSlices > 1
                       THEN 1 ELSE ui.tIndex]
  /\ setHeat(render(heatNow, ui', "change"))
  /\ UNCHANGED notHeat

\* a fetch in flight delivers its rows: the rest of its loadSlice runs
\* (rowsToGrid, the metadata, cache.set), then whatever awaited it
FetchDone(i) ==
  /\ gpc = "heat"
  /\ i \in 1..Len(pending)
  /\ LET p == pending[i]
         rest == SubSeq(pending, 1, i - 1) \o SubSeq(pending, i + 1, Len(pending))
     IN \E grid \in rowsToGrid(parseRows(entries[p.index + 1])) :
          setHeat(resume(heatOf(cacheSet(cache, p.index, grid),
                                initMetadata(state, grid), rest, started,
                                drawn),
                         ui, p.frame, grid))
  /\ UNCHANGED <<ui, notHeat>>

HeatNext ==
  \/ \E value \in Indices : SliderInput(value)
  \/ \E value \in {"temp", "rate"} : VariableChange(value)
  \/ \E i \in 1..Len(pending) : FetchDone(i)

HeatSpec == HeatInit /\ [][HeatNext]_vars

\* C1: over any interleaving of loadSlice calls, at most one fetch is ever
\* started per index: a loadSlice(k) issued while a fetch of k is in flight,
\* or after it completed, starts no new fetch.
C1_AtMostOneFetchPerIndex ==
  gpc = "heat" => \A k \in DOMAIN started : started[k] <= 1

-----------------------------------------------------------------------------
(* Claims on filterByRegion                                                 *)

\* the bounds the script gives the region, as integers
boundsOf(sc, region) == IF sc = 1 THEN regionBox1(region) ELSE regionBox(region)

\* an integer latitude and longitude inside the bounds, all four inclusive,
\* the longitude taken in 0..360
insideBounds(b, lat, lon) ==
  LET l == IF lon < 0 THEN lon + 360 ELSE lon
  IN lat >= b.latMin /\ lat <= b.latMax /\ l >= b.lonMin /\ l <= b.lonMax

\* C11: filterByRegion selects exactly the rows whose lat and normalized lon
\* lie inside the region's bounding box, all four bounds inclusive, and
\* csvData.filter yields the empty selection (no error) when no row matches.
C11_SelectsExactlyTheBox ==
  rpc = "filtered" =>
    LET b == boundsOf(script, rcell.region)
        in360 == insideBounds(b, rcell.lat.n, rcell.lon360.n)
        inSigned == insideBounds(b, rcell.lat.n, rcell.lonSigned.n)
        rows == cellRows(rcell)
    IN /\ rpick.lon360 = in360
       /\ rpick.lonSigned = inSigned
       /\ rpick.selected =
            (IF in360 THEN <<rows[1]>> ELSE <<>>)
              \o (IF inSigned THEN <<rows[2]>> ELSE <<>>)
       /\ regionDataOf(script, rcell.region, [rows |-> <<>>]) = <<>>

\* a cell on the corner of its box (latMax, lonMin) is selected
C11_Witness ==
  /\ rpc = "filtered"
  /\ rcell.lat.n = boundsOf(script, rcell.region).latMax
  /\ rcell.lon360.n = boundsOf(script, rcell.region).lonMin
  /\ rpick.lon360
  /\ Len(rpick.selected) >= 1

\* a cell outside the box of its region: the selection is empty
C11_WitnessEmpty ==
  /\ rpc = "filtered"
  /\ rcell.lat.n = boundsOf(script, rcell.region).latMax + 1
  /\ rpick.selected = <<>>

-----------------------------------------------------------------------------
(* Claims on the baseline table and the anomaly series                      *)

baselineReturned(t) == t.pc \in {"anomaly", "done", "nodata"}

\* the temperatures of the region cells of month k that are numbers
cellTemps(sc, region, k) ==
  LET cells == regionDataOf(sc, region, files[k])
      temps == [i \in 1..Len(cells) |-> ToNumber(cells[i].tas_k)]
  IN SelectSeq(temps, IsFinite)

\* the mean of a non-empty sequence of numbers
meanOf(nums) == Rat(SumNums(nums).n, SumNums(nums).d * Len(nums))

\* the regional means of calendar month m, one per year that has a file
\* with at least one region cell holding a number
yearMeans(sc, region, m) ==
  LET ks == SelectSeq([k \in 1..NumMonths |-> k],
              LAMBDA k : /\ parseMonth(months[k]) = m
                         /\ files[k].ok
                         /\ cellTemps(sc, region, k) # <<>>)
  IN [i \in 1..Len(ks) |-> meanOf(cellTemps(sc, region, ks[i]))]

\* C12: computeMonthlyBaseline returns, for each calendar month, the mean
\* over years of the year's regional mean over the non-NaN region cells,
\* and the missing marker (NaN or null) for a calendar month in which no
\* year has such a mean.
C12_BaselineIsMeanOfYearMeans ==
  \A r \in ChartRegions :
    baselineReturned(task[r]) =>
      \A m \in 1..MonthsPerYear :
        LET ym == yearMeans(script, r, m)
        IN IF ym = <<>>
           THEN task[r].baseline[m] \in {Null, NaN}
           ELSE task[r].baseline[m] = meanOf(ym)

\* C13: a month whose region cells all have a NaN temperature contributes no
\* point: no element of dataAll has a NaN or undefined tempK or anomaly.
C13_NoNaNPoint ==
  \A r \in ChartRegions :
    \A i \in 1..Len(task[r].dataAll) :
      /\ IsFinite(task[r].dataAll[i].tempK)
      /\ IsFinite(task[r].dataAll[i].anomaly)

\* the same two numbers
SameNumber(a, b) == IsFinite(a) /\ IsFinite(b) /\ a.n * b.d = b.n * a.d

\* C14: every point of the series has anomaly = tempK - baseline[calendar
\* month of its date], with the baseline table of the same region, and there
\* is no point for a month whose baseline entry is missing (not a number).
C14_AnomalyIsTempMinusBaseline ==
  \A r \in ChartRegions :
    \A i \in 1..Len(task[r].dataAll) :
      LET p == task[r].dataAll[i]
          b == task[r].baseline[getMonth1(p.date)]
      IN /\ IsFinite(b)
         /\ IsFinite(p.tempK) => SameNumber(p.anomaly, Minus(p.tempK, b))
         /\ ~IsFinite(p.tempK) => ~IsFinite(p.anomaly)

\* a + b + ... in the order of the series (NaN once a term is NaN)
RECURSIVE sumAnomalies(_)
sumAnomalies(data) ==
  IF data = <<>> THEN Num(0)
  ELSE Plus(sumAnomalies(SubSeq(data, 1, Len(data) - 1)),
            ToNumber(data[Len(data)].anomaly))

\* C15: once the series of a region is complete, the anomalies of each
\* calendar month, over all years, sum to zero.
C15_AnomaliesSumToZeroPerMonth ==
  \A r \in ChartRegions :
    finished(task[r]) =>
      \A m \in 1..MonthsPerYear :
        SameNumber(sumAnomalies(SelectSeq(task[r].dataAll,
                       LAMBDA p : getMonth1(p.date) = m)), Num(0))

-----------------------------------------------------------------------------
(* The trend fits: computeRegressionLine (src/unnamed/part_000:375-389) and *)
(* the regressions of drawChart (198-207, 520-531)                          *)

Infinity == [t |-> "inf", n |-> 1, d |-> 1]

Lcm(a, b) == (a \div Gcd(a, b)) * b

\* a + b, a - b, a * b, a / b on numbers, in lowest terms; not a number as
\* soon as an operand is not one; x / 0 is NaN for x = 0 and infinite if not
Add(a, b) ==
  IF IsFinite(a) /\ IsFinite(b)
  THEN LET l == Lcm(a.d, b.d)
       IN Rat(a.n * (l \div a.d) + b.n * (l \div b.d), l)
  ELSE NaN

Sub(a, b) ==
  IF IsFinite(a) /\ IsFinite(b)
  THEN LET l == Lcm(a.d, b.d)
       IN Rat(a.n * (l \div a.d) - b.n * (l \div b.d), l)
  ELSE NaN

Times(a, b) ==
  IF IsFinite(a) /\ IsFinite(b)
  THEN LET g == Gcd(Abs(a.n), b.d)
           h == Gcd(Abs(b.n), a.d)
       IN Rat((a.n \div g) * (b.n \div h), (a.d \div h) * (b.d \div g))
  ELSE NaN

Div(a, b) ==
  IF IsFinite(a) /\ IsFinite(b)
  THEN IF b.n # 0 THEN Times(a, Rat(b.d, b.n))
       ELSE IF a.n = 0 THEN NaN ELSE Infinity
  ELSE NaN

\* the days of month m (1..12) of year
DaysInMonth(year, m) ==
  IF m = 2
  THEN (IF year % 4 = 0 /\ (year % 100 # 0 \/ year % 400 = 0) THEN 29 ELSE 28)
  ELSE IF m \in {4, 6, 9, 11} THEN 30 ELSE 31

RECURSIVE DaysBefore(_, _)
\* the days from 1 January of FirstYear to the first of month m of year
DaysBefore(year, m) ==
  IF m > 1 THEN DaysInMonth(year, m - 1) + DaysBefore(year, m - 1)
  ELSE IF year > FirstYear THEN DaysBefore(year - 1, 13)
  ELSE 0

\* d.date.getTime(), counted in days from 1 January of FirstYear instead of
\* milliseconds from 1970: the lines fitted are the same lines
getTime(date) == Num(DaysBefore(date.year, date.month0 + 1))

\* d3.sum(values): NaN and undefined are skipped
d3sum(s) ==
  LET RECURSIVE sum(_)
      sum(q) == IF q = <<>> THEN Num(0)
                ELSE IF IsFinite(ToNumber(Head(q)))
                THEN Add(sum(Tail(q)), ToNumber(Head(q)))
                ELSE sum(Tail(q))
  IN sum(s)

\* num += ..., den += ... in a loop: NaN once a term is NaN
loopSum(s) ==
  LET RECURSIVE sum(_)
      sum(q) == IF q = <<>> THEN Num(0)
                ELSE Add(sum(SubSeq(q, 1, Len(q) - 1)), ToNumber(q[Len(q)]))
  IN sum(s)

xValsOf(data) == [i \in 1..Len(data) |-> getTime(data[i].date)]
yValsOf(data) == [i \in 1..Len(data) |-> data[i].anomaly]

\* (xi - xMean) * (yVals[i] - yMean)
crossTerms(xVals, yVals) ==
  LET xMean == d3mean(xVals)
      yMean == d3mean(yVals)
  IN [i \in 1..Len(xVals) |->
        Times(Sub(xVals[i], ToNumber(xMean)), Sub(ToNumber(yVals[i]), ToNumber(yMean)))]

\* (xi - xMean) ** 2
squareTerms(xVals) ==
  LET xMean == d3mean(xVals)
  IN [i \in 1..Len(xVals) |->
        Times(Sub(xVals[i], ToNumber(xMean)), Sub(xVals[i], ToNumber(xMean)))]

\* a variant that forgets the slope
trendInterceptFlat(yMean, slope, xMean) == ToNumber(yMean)

\* intercept = yMean - slope * xMean
trendIntercept(yMean, slope, xMean) ==
  Sub(ToNumber(yMean), Times(slope, ToNumber(xMean)))

\* a variant that leaves the intercept out
lineAtNoIntercept(slope, intercept, time) == Times(slope, time)

\* slope * time + intercept
lineAt(slope, intercept, time) == Add(Times(slope, time), intercept)

Line(slope, intercept, t0, t1) ==
  [kind |-> "line", t0 |-> t0, t1 |-> t1,
   a0 |-> lineAt(slope, intercept, Num(t0)),
   a1 |-> lineAt(slope, intercept, Num(t1))]

computeRegressionLine(dataForRegression, xRangeStartTime, xRangeEndTime) ==
  IF Len(dataForRegression) < 2 THEN NoLine
  ELSE LET xVals == xValsOf(dataForRegression)
           yVals == yValsOf(dataForRegression)
           num == d3sum(crossTerms(xVals, yVals))
           den == d3sum(squareTerms(xVals))
           slope == Div(num, den)
           intercept == trendIntercept(d3mean(yVals), slope, d3mean(xVals))
       IN IF den.n = 0 THEN NoLine
          ELSE Line(slope, intercept, xRangeStartTime, xRangeEndTime)

\* the regression of the first script's drawChart: no test of n or den
drawRegression1(dataAll) ==
  LET x == xValsOf(dataAll)
      y == yValsOf(dataAll)
      num == loopSum(crossTerms(x, y))
      den == loopSum(squareTerms(x))
      slope == Div(num, den)
      intercept == trendIntercept(d3mean(y), slope, d3mean(x))
  IN Line(slope, intercept, x[1].n, x[Len(x)].n)

\* the regression of the second script's drawChart: if (data.length > 1)
drawRegression2(data) ==
  IF Len(data) > 1
  THEN LET xVals == xValsOf(data)
           yVals == yValsOf(data)
           slope == Div(d3sum(crossTerms(xVals, yVals)), d3sum(squareTerms(xVals)))
           intercept == trendIntercept(d3mean(yVals), slope, d3mean(xVals))
       IN Line(slope, intercept, xVals[1].n, xVals[Len(xVals)].n)
  ELSE NoLine

MaxPoints == 3

\* the dates and anomalies of the points given to the fits
TrendDates == {[year |-> FirstYear, month0 |-> m] : m \in 0..2}
TrendAnomalies == {Num(-1), Num(0), Num(2)}
TrendPoints ==
  {[date |-> d, anomaly |-> a, tempK |-> Num(280)] :
     d \in TrendDates, a \in TrendAnomalies}

\* the ends of the time axis of the chart a line is drawn on
TrendTimes == {getTime(d).n : d \in TrendDates} \cup {90}

notTrend == <<gridVars, regionVars, chartVars, heatVars, script, conv,
             playVars>>

\* no chart loading, no cell being filtered
PageIdle ==
  /\ rcell = [region |-> "alaska", lat |-> Num(0), lon360 |-> Num(0),
              lonSigned |-> Num(0)]
  /\ rpick = NoPick
  /\ rpc = "off"
  /\ files = <<>>
  /\ tabs = {}
  /\ initialized = [r \in ChartRegions |-> FALSE]
  /\ task = [r \in ChartRegions |-> idleTask]
  /\ regionState = regionState0

TrendInit ==
  /\ PlayIdle
  /\ GridIdle
  /\ PageIdle
  /\ script \in {1, 2}
  /\ conv = [pc |-> "off", v |-> NaN, out |-> NaN]
  /\ \E series \in SeqUpTo(TrendPoints, MaxPoints) :
     \E t0 \in TrendTimes, t1 \in TrendTimes :
       /\ t0 <= t1
       /\ trend = [pc |-> "series", series |-> series, t0 |-> t0, t1 |-> t1,
                   overlay |-> NoLine, regLine |-> NoLine]

\* the series drawChart works on: dataAll, or a filtered regionState data,
\* not empty (drawChart is not reached, or returns, when it is) and in the
\* order of the months
chartSeries(series) ==
  /\ series # <<>>
  /\ \A i \in 1..Len(series) : \A j \in 1..Len(series) :
       i < j => DateLt(series[i].date, series[j].date)

\* computeRegressionLine called on the series, for the time axis t0 .. t1
\* (in drawChart: another region's series, over the axis of this chart)
TrendFit ==
  /\ trend.pc \in {"series", "drawn"}
  /\ script = 2
  /\ trend' = [trend EXCEPT
                 !.pc = IF @ = "series" THEN "fitted" ELSE "both",
                 !.overlay = computeRegressionLine(trend.series, trend.t0,
                                                   trend.t1)]
  /\ UNCHANGED notTrend

\* the regression of drawChart on the series of the chart
TrendDraw ==
  /\ trend.pc \in {"series", "fitted"}
  /\ chartSeries(trend.series)
  /\ trend' = [trend EXCEPT
                 !.pc = IF @ = "series" THEN "drawn" ELSE "both",
                 !.regLine = IF script = 1 THEN drawRegression1(trend.series)
                             ELSE drawRegression2(trend.series)]
  /\ UNCHANGED notTrend

TrendNext == TrendFit \/ TrendDraw

TrendSpec == TrendInit /\ [][TrendNext]_vars

-----------------------------------------------------------------------------
(* Claims on the trend fits                                                 *)

trendFitted == trend.pc \in {"fitted", "both"}
trendDrawn == trend.pc \in {"drawn", "both"}

\* fewer than two points, or all points at the same time
undefinedTrend(series) ==
  \/ Len(series) < 2
  \/ \A i \in 1..Len(series) : \A j \in 1..Len(series) :
       series[i].date = series[j].date

\* C16: for a series of fewer than 2 points, or whose points all share one
\* timestamp, the trend is undefined: computeRegressionLine returns no line,
\* and drawChart makes, stores and draws no regression line.
C16_UndefinedTrendGivesNoLine ==
  undefinedTrend(trend.series) =>
    /\ trendFitted => trend.overlay = NoLine
    /\ trendDrawn => trend.regLine = NoLine

\* the least-squares line of a series of times x (integers) and anomalies y,
\* from the sums: slope = (n Sxy - Sx Sy) / (n Sxx - Sx Sx),
\* intercept = (Sy - slope Sx) / n
sumOver(data, f(_)) ==
  LET RECURSIVE sum(_)
      sum(i) == IF i = 0 THEN Num(0) ELSE Add(sum(i - 1), f(data[i]))
  IN sum(Len(data))

leastSquares(data) ==
  LET n == Num(Len(data))
      X(p) == getTime(p.date)
      Y(p) == p.anomaly
      XX(p) == Times(X(p), X(p))
      XY(p) == Times(X(p), Y(p))
      Sx == sumOver(data, X)
      Sy == sumOver(data, Y)
      Sxx == sumOver(data, XX)
      Sxy == sumOver(data, XY)
      slope == Div(Sub(Times(n, Sxy), Times(Sx, Sy)),
                   Sub(Times(n, Sxx), Times(Sx, Sx)))
  IN [slope |-> slope, intercept |-> Div(Sub(Sy, Times(slope, Sx)), n)]

\* C17: the two endpoints computeRegressionLine returns for an external time
\* range t0 .. t1 lie on the one line fitted to the series alone: each is
\* slope * t + intercept, slope and intercept being those of the series.
C17_EndpointsOnTheFittedLine ==
  (trendFitted /\ trend.overlay.kind = "line") =>
    LET ls == leastSquares(trend.series)
    IN /\ trend.overlay.t0 = trend.t0
       /\ trend.overlay.t1 = trend.t1
       /\ trend.overlay.a0 = Add(Times(ls.slope, Num(trend.t0)), ls.intercept)
       /\ trend.overlay.a1 = Add(Times(ls.slope, Num(trend.t1)), ls.intercept)

\* a sloping line over a time axis that ends after the last point of the
\* series and starts after its first
C17_Witness ==
  /\ trendFitted
  /\ trend.overlay.kind = "line"
  /\ Len(trend.series) = 3
  /\ trend.overlay.a0 # trend.overlay.a1
  /\ trend.t1 = 90
  /\ trend.t0 = 31
  /\ \E i \in 1..3 : getTime(trend.series[i].date).n = 0

\* C18: the fit on exactly two points (t0, y0), (t1, y1) with t0 # t1 gives
\* a line through both: slope * t + intercept is y0 at t0 and y1 at t1.
C18_TwoPointsLieOnTheLine ==
  (Len(trend.series) = 2 /\ trend.series[1].date # trend.series[2].date) =>
    /\ trendFitted =>
         /\ trend.overlay.kind = "line"
         /\ \A i \in 1..2 :
              LET x == getTime(trend.series[i].date).n
                  y == trend.series[i].anomaly
              IN /\ trend.t0 = x => trend.overlay.a0 = y
                 /\ trend.t1 = x => trend.overlay.a1 = y
    /\ trendDrawn =>
         /\ trend.regLine.kind = "line"
         /\ trend.regLine.t0 = getTime(trend.series[1].date).n
         /\ trend.regLine.a0 = trend.series[1].anomaly
         /\ trend.regLine.t1 = getTime(trend.series[2].date).n
         /\ trend.regLine.a1 = trend.series[2].anomaly

\* both fits made on two points a month apart with different anomalies, the
\* time axis being the two points' own range
C18_Witness ==
  /\ trend.pc = "both"
  /\ Len(trend.series) = 2
  /\ trend.t0 = getTime(trend.series[1].date).n
  /\ trend.t1 = getTime(trend.series[2].date).n
  /\ trend.t0 < trend.t1
  /\ trend.series[1].anomaly # trend.series[2].anomaly
  /\ trend.overlay.a1 = trend.series[2].anomaly
  /\ trend.regLine.a0 = trend.series[1].anomaly

-----------------------------------------------------------------------------
(* The unit heuristic of the second heatmap script (src/main.js:416)        *)

\* a variant that reads a value that is not finite as zero
KtoCZero(v) ==
  IF IsFinite(v)
  THEN (IF Lt(Num(150), v) THEN Sub(v, Rat(27315, 100)) ELSE v)
  ELSE Num(0)

\* Number.isFinite(v) ? (v > 150 ? v - 273.15 : v) : NaN
KtoC(v) ==
  IF IsFinite(v)
  THEN (IF Lt(Num(150), v) THEN Sub(v, Rat(27315, 100)) ELSE v)
  ELSE NaN

MaxHalves == 640

\* the numbers given to KtoC: every half degree from -50 to MaxHalves / 2,
\* NaN and the infinities
KtoCInputs ==
  {Rat(h, 2) : h \in -100..MaxHalves} \cup {NaN, Infinity, [Infinity EXCEPT !.n = -1]}

notConv == <<gridVars, regionVars, chartVars, heatVars, script, trend,
            playVars>>

ConvInit ==
  /\ PlayIdle
  /\ GridIdle
  /\ PageIdle
  /\ script = 2
  /\ trend = [pc |-> "off", series |-> <<>>, t0 |-> 0, t1 |-> 0,
              overlay |-> NoLine, regLine |-> NoLine]
  /\ \E v \in KtoCInputs : conv = [pc |-> "value", v |-> v, out |-> NaN]

\* const vC = KtoC(vK)
ConvKtoC ==
  /\ conv.pc = "value"
  /\ conv' = [conv EXCEPT !.pc = "converted", !.out = KtoC(conv.v)]
  /\ UNCHANGED notConv

ConvNext == ConvKtoC

ConvSpec == ConvInit /\ [][ConvNext]_vars

-----------------------------------------------------------------------------
(* Claims on the temperature column and the unit                            *)

\* the rows with valid lat, lon and value that no later row of the file
\* overwrites (no later row at the same lat and lon)
LastValidRows(file) ==
  {k \in ValidRows(file) :
     \A j \in (k + 1)..Len(file.rows) :
       ~(file.rows[j].lat = file.rows[k].lat
          /\ file.rows[j].lon = file.rows[k].lon)}

\* C19: whichever accepted name the temperature column of a month's file
\* has (tas_k, tas, temp, temperature, value), the grid holds the file's
\* finite temperature at the position of every row that has one, not NaN.
C19_AnyTemperatureColumnIsRead ==
  gpc = "gridDone" =>
    LET g == cache[0]
        file == entries[1]
    IN \A k \in LastValidRows(file) :
         ValueAt(g, ToNumber(file.rows[k].lat), ToNumber(file.rows[k].lon))
           = Float32(ToNumber(file.rows[k].val))

\* C20: KtoC maps a finite value above 150 to the value minus 273.15, leaves
\* a finite value of 150 or less as it is, and maps a value that is not
\* finite to NaN, never to zero.
C20_KtoCByThreshold ==
  conv.pc = "converted" =>
    LET v == conv.v
        out == conv.out
    IN IF v.t = "num"
       THEN IF v.n > 150 * v.d
            THEN /\ out.t = "num"
                 /\ out.n * 100 * v.d = (100 * v.n - 27315 * v.d) * out.d
            ELSE out = v
       ELSE out = NaN

\* 150.5 is taken for kelvin: -122.65
C20_Witness ==
  /\ conv.pc = "converted"
  /\ conv.v = Rat(301, 2)
  /\ conv.out = Rat(-12265, 100)

\* 150 is left as it is, and a value that is not finite gives NaN
C20_WitnessUnchanged ==
  /\ conv.pc = "converted"
  /\ \/ conv.v = Num(150) /\ conv.out = Num(150)
     \/ conv.v = Infinity /\ conv.out = NaN
-----------------------------------------------------------------------------
(* C25 *)

\* C25: under any sequence of switchTab calls, also repeated ones while the
\* region is still loading, createVisualization has been started at most
\* once for every region, and exactly for the regions whose flag is set
C25_AtMostOneRunPerRegion ==
  \A region \in ChartRegions :
     /\ task[region].runs <= 1
     /\ (task[region].runs = 1) <=> initialized[region]

\* both charts were started and both are still loading, in different passes
C25_Witness ==
  /\ task["alaska"].runs = 1 /\ task["alaska"].pc = "anomaly"
  /\ task["us"].runs = 1 /\ task["us"].pc = "baseline" /\ task["us"].k > 1
-----------------------------------------------------------------------------
(* C26 *)

\* C26: in the second chart script, whenever regionState.alaska.data is not
\* empty the Alaska load has finished and the data is its complete series,
\* and the Alaska series behind the overlay drawn in another region's chart
\* is that complete series under the chart's own filters, however the two
\* loads, the filter clicks and the redraws interleave
C26_OverlayFromCompleteAlaskaSeries ==
  script = 2 =>
    /\ regionState["alaska"].data # <<>> =>
         /\ task["alaska"].pc = "done"
         /\ regionState["alaska"].data = expectedSeries(2, "alaska")
    /\ \A region \in ChartRegions \ {"alaska"} :
         task[region].overlayFrom # <<>> =>
           task[region].overlayFrom =
             applyFiltersToData(expectedSeries(2, "alaska"),
                                regionState[region].selectedMonth,
                                regionState[region].selectedSeason)

\* the other chart is loaded and was redrawn after a filter click while the
\* Alaska load has part of its series: no overlay was drawn
C26_Witness ==
  /\ script = 2
  /\ task["alaska"].pc = "anomaly" /\ task["alaska"].dataAll # <<>>
  /\ task["us"].pc = "done"
  /\ regionState["us"].selectedMonth # MonthAll
  /\ task["us"].overlayFrom = <<>>
  /\ regionState["alaska"].data = <<>>

\* the other chart was redrawn under a filter after the Alaska load finished:
\* the overlay is drawn from the filtered Alaska series
C26_WitnessOverlay ==
  /\ script = 2
  /\ task["alaska"].pc = "done" /\ task["us"].pc = "done"
  /\ regionState["us"].selectedSeason # "all"
  /\ Len(task["us"].overlayFrom) > 1
  /\ Len(task["us"].overlayFrom) < Len(regionState["alaska"].data)
-----------------------------------------------------------------------------
(* The second heatmap script with its events (src/main.js:340-742): init,   *)
(* the back / forward buttons and arrow keys, the slider, the metric radio  *)
(* buttons, the play button with its interval timer, and the d3.csv fetches *)
(* that settle in between.  A step runs from an event, a timer tick or the  *)
(* settling of a fetch to the point where every call waits for a fetch; an  *)
(* await on a slice that is in STATE.cache resumes within the same step.    *)

\* the months of the manifest of the second heatmap script
PlayMonths == 2

PlayIndices == 0..(PlayMonths - 1)

\* how many fetches are in flight at most while the visitor gives input
MaxFetches == 2

\* the file of month ym: one cell, in kelvin
kelvinOf(ym) == Num(280 + ym * ym)

\* loadSlice after await d3.csv: the rows with vC = KtoC(+r.tas_k)
sliceOf(ym) == [ym |-> ym, vC |-> KtoC(kelvinOf(ym))]

\* what waits for a fetch: the caller of loadSlice and the slice it holds
Await(kind, slice) == [kind |-> kind, slice |-> slice]

playOf(S, f, c) == [STATE |-> S, fetches |-> f, canvas |-> c]

playNow == playOf(STATE2, fetches, canvas)

\* renderSlice(slice, prevSlice): the metric is read when the frame is drawn
renderSlice(h, slice, prevSlice) ==
  LET v == slice.vC
      shown == IF h.STATE.metric = "rate" /\ prevSlice # NoSlice
               THEN (IF IsFinite(v) /\ IsFinite(prevSlice.vC)
                     THEN Minus(v, prevSlice.vC) ELSE NaN)
               ELSE v
  IN [h EXCEPT !.canvas = [metric |-> h.STATE.metric, ym |-> slice.ym,
                           prev |-> prevSlice.ym, values |-> <<shown>>]]

RECURSIVE loadSliceYm(_, _, _)
RECURSIVE proceed(_, _, _)

\* drawCurrent() up to its first await
drawCurrent(h) ==
  IF h.STATE.tIndex \in 0..(h.STATE.months - 1)
  THEN loadSliceYm(h, h.STATE.tIndex, Await("slice", NoSlice))
  ELSE h

\* loadSlice(ym): the cached slice if STATE.cache.has(ym), a new fetch if not
loadSliceYm(h, ym, await) ==
  IF ym \in DOMAIN h.STATE.cache
  THEN proceed(h, await, h.STATE.cache[ym])
  ELSE [h EXCEPT !.fetches = @ (+) SetToBag({[ym |-> ym, await |-> await]})]

\* the caller of loadSlice goes on with the slice it awaited; drawCurrent
\* reads STATE.metric and STATE.tIndex again after its first await
proceed(h, await, slice) ==
  CASE await.kind = "first" -> drawCurrent(h)
    [] await.kind = "slice" ->
         IF h.STATE.metric = "rate" /\ h.STATE.tIndex > 0
         THEN loadSliceYm(h, h.STATE.tIndex - 1, Await("prev", slice))
         ELSE renderSlice(h, slice, NoSlice)
    [] await.kind = "prev" -> renderSlice(h, await.slice, slice)

setPlay(h, timers, event) ==
  /\ STATE2' = h.STATE
  /\ fetches' = h.fetches
  /\ canvas' = h.canvas
  /\ page' = [page EXCEPT !.timers = timers, !.event = event]

notPlay == <<gridVars, script, regionVars, chartVars, heatVars, fnVars>>

\* init() up to its await loadSlice(STATE.months[0]): the listeners are
\* wired, the manifest is read, the fetch of the first slice is in flight
PlayInit ==
  /\ FunctionsIdle
  /\ ChartsIdle
  /\ GridIdle
  /\ STATE2 = [STATE0 EXCEPT !.months = PlayMonths]
  /\ fetches = SetToBag({[ym |-> 0, await |-> Await("first", NoSlice)]})
  /\ canvas = BlankCanvas
  /\ page = [timers |-> 0, present |-> TRUE, event |-> "other"]

\* a variant of the clamp that lets the index leave the range
clampNone(n, len) == n

\* Math.max(0, Math.min(STATE.months.length - 1, n))
clamp(n, len) ==
  LET m == IF len - 1 < n THEN len - 1 ELSE n
  IN IF m < 0 THEN 0 ELSE m

\* step(delta)
step(h, by) ==
  LET next == clamp(h.STATE.tIndex + by, h.STATE.months)
  IN IF next # h.STATE.tIndex
     THEN drawCurrent([h EXCEPT !.STATE.tIndex = next])
     ELSE h

\* a variant of the timer callback that never sees the last month
atLastMonthNever(S) == FALSE

\* STATE.tIndex >= STATE.months.length - 1
atLastMonth(S) == S.tIndex >= S.months - 1

\* togglePlay(): setInterval when playing starts, clearInterval when it
\* stops; timers is the number of interval timers that are set
togglePlay(h, timers) ==
  [h |-> [h EXCEPT !.STATE.playing = ~@],
   timers |-> IF ~h.STATE.playing THEN timers + 1
              ELSE IF timers > 0 THEN timers - 1 ELSE 0]

\* the visitor is at the page and the bound on fetches in flight is not met
visitorActs == page.present /\ BagCardinality(fetches) < MaxFetches

\* a click on the back or forward button, or an arrow key
Step(by) ==
  /\ visitorActs
  /\ setPlay(step(playNow, by), page.timers,
             IF by < 0 THEN "back" ELSE "forward")
  /\ UNCHANGED notPlay

\* the visitor moves the slider to value
SliderMoved(value) ==
  /\ visitorActs
  /\ value # STATE2.tIndex
  /\ setPlay(drawCurrent([playNow EXCEPT !.STATE.tIndex = value]),
             page.timers, "other")
  /\ UNCHANGED notPlay

\* the visitor picks the other metric: setMetric(next)
SetMetric(next) ==
  /\ visitorActs
  /\ next # STATE2.metric
  /\ setPlay(drawCurrent([playNow EXCEPT !.STATE.metric = next]),
             page.timers, "other")
  /\ UNCHANGED notPlay

\* a click on the play button
PlayClicked ==
  /\ page.present
  /\ LET r == togglePlay(playNow, page.timers)
     IN setPlay(r.h, r.timers, "other")
  /\ UNCHANGED notPlay

\* an interval timer fires: the callback given to setInterval
Tick ==
  /\ page.timers > 0
  /\ page.present => BagCardinality(fetches) < MaxFetches
  /\ IF atLastMonth(STATE2)
     THEN LET r == togglePlay(playNow, page.timers)
          IN setPlay(r.h, r.timers, "other")
     ELSE setPlay(step(playNow, 1), page.timers, "other")
  /\ UNCHANGED notPlay

\* a fetch in flight delivers its rows: the rest of its loadSlice runs
\* (STATE.cache.set), then whatever awaited it
SliceFetched(p) ==
  /\ BagIn(p, fetches)
  /\ LET rest == fetches (-) SetToBag({p})
         slice == sliceOf(p.ym)
         S == [STATE2 EXCEPT !.cache = cacheSet(@, p.ym, slice)]
     IN setPlay(proceed(playOf(S, rest, canvas), p.await, slice),
                page.timers, "other")
  /\ UNCHANGED notPlay

\* the visitor leaves playback running and gives no further input
VisitorLeaves ==
  /\ page.present
  /\ STATE2.playing
  /\ page' = [page EXCEPT !.present = FALSE, !.event = "other"]
  /\ UNCHANGED <<STATE2, fetches, canvas, notPlay>>

PlayNext ==
  \/ \E by \in {-1, 1} : Step(by)
  \/ \E value \in PlayIndices : SliderMoved(value)
  \/ \E next \in {"temperature", "rate"} : SetMetric(next)
  \/ PlayClicked
  \/ Tick
  \/ \E p \in BagToSet(fetches) : SliceFetched(p)
  \/ VisitorLeaves

PlaySpec == PlayInit /\ [][PlayNext]_vars

\* setInterval fires its callback again and again while the timer is set
PlaybackSpec == PlaySpec /\ WF_vars(Tick)
-----------------------------------------------------------------------------
(* C21 *)

\* C21: after any sequence of slider, step, key and metric events, once
\* every fetch of loadSlice has settled, the frame last drawn on the canvas
\* is the frame of the current time index under the current metric
C21_LastFrameIsCurrent ==
  (page.event # "off" /\ fetches = EmptyBag) =>
     /\ canvas.ym = STATE2.tIndex
     /\ canvas.metric = STATE2.metric

\* the same for the first heatmap script: what render last drew is the frame
\* of state.tIndex under state.variable
C21_LastFrameIsCurrentFirstScript ==
  (gpc = "heat" /\ pending = <<>>) =>
     /\ drawn.t = ui.tIndex
     /\ drawn.kind = (IF ui.variable = "temp" THEN "temp"
                      ELSE IF ui.tIndex = 0 THEN "unavailable" ELSE "rate")
-----------------------------------------------------------------------------
(* C22 *)

\* the difference of month ym to the month before it, in each cell
monthOverMonth(ym) == <<Minus(sliceOf(ym).vC, sliceOf(ym - 1).vC)>>

\* C22: whenever a frame is drawn under the rate metric, every drawn cell
\* value is the month-over-month difference of the frame's month or is
\* missing; at the first month, which has no previous month, every drawn
\* value is missing (no absolute temperature is drawn)
C22_RateFrameShowsDifferences ==
  canvas.metric = "rate" =>
    \A i \in 1..Len(canvas.values) :
       \/ ~IsFinite(canvas.values[i])
       \/ canvas.ym > 0 /\ canvas.values[i] = monthOverMonth(canvas.ym)[i]
-----------------------------------------------------------------------------
(* C23 *)

\* the event just handled is a step against the end the index is already at
stepAtBoundary ==
  \/ page'.event = "back" /\ STATE2.tIndex = 0
  \/ page'.event = "forward" /\ STATE2.tIndex = STATE2.months - 1

C23_IndexStaysInRangeFirstScript == gpc = "heat" => ui.tIndex \in Indices

C23_WitnessBack ==
  /\ page.event = "back"
  /\ STATE2.tIndex = 0
  /\ canvas.ym > 0
-----------------------------------------------------------------------------
(* C24 *)

\* playback has come to rest at the last month
playbackEnded ==
  /\ ~STATE2.playing
  /\ page.timers = 0
  /\ STATE2.tIndex = STATE2.months - 1

=============================================================================
